---- MODULE Spec2Model ----
(***************************************************************************)
(* Model of ChipsetMultipleFinal.py: the multi-year chipset comparison     *)
(* (compare_chipsets) and the Streamlit session around it (main).          *)
(*                                                                         *)
(* A DataFrame is modelled by the sequence of its 'Chipset SP' column; the *)
(* other columns (Customer, PDM Name) are never read by the code and are   *)
(* carried through unchanged.  A row selected into an output keeps, next   *)
(* to its 'Chipset SP' value, the year and the row position it was taken   *)
(* from, so that properties can speak about "a record of a period".        *)
(* Year keys are the 4-character strings cut from the file names; they are *)
(* modelled by naturals, whose order is the order sorted() gives them.     *)
(***************************************************************************)
EXTENDS Naturals, Sequences, FiniteSets

VARIABLES uploaded_files, session_state, data_dict, added, removed, reappeared, status

vars == <<uploaded_files, session_state, data_dict, added, removed, reappeared, status>>

(* ------------------------------ bounds --------------------------------- *)

\* Largest number of periods handed to compare_chipsets directly.
MaxYears == 5
\* Largest total number of rows over all periods handed to compare_chipsets.
MaxRecords == 3
\* Number of distinct years a session's file names can carry.
NumYears == 3
\* Largest total number of manual entries added in one session.
MaxManual == 1

(* ------------------------------ values --------------------------------- *)

\* The float NaN pandas puts where a CSV cell is empty or missing.
NaN == "NaN"
\* The empty string st.text_input returns when nothing was typed.
Empty == ""
\* Chipset SP codes.
Idents == {"a", "b"}
\* What a 'Chipset SP' cell handed to compare_chipsets can hold.
Vals == Idents \cup {NaN, Empty}
\* The uploaded CSV files of a session, as load_data returns them.
SampleFiles == {<<"a">>, <<NaN, "b">>, <<>>}
\* What the user can type into "Chipset SP Code".
TypedCodes == {"a", Empty}
SessionYears == 1..NumYears

(* --------------------------- compare_chipsets --------------------------- *)

RECURSIVE sorted(_)
sorted(S) ==
  IF S = {} THEN <<>>
  ELSE LET m == CHOOSE x \in S : \A y \in S : x <= y
       IN <<m>> \o sorted(S \ {m})

\* set(df['Chipset SP'].dropna().unique()) for every year
chipset_history(d) ==
  [year \in DOMAIN d |-> {d[year][k] : k \in 1..Len(d[year])} \ {NaN}]

\* df[df['Chipset SP'].isin(chipsets)].to_dict('records')
records_isin(d, year, chipsets) ==
  LET rows == [k \in 1..Len(d[year]) |-> [year |-> year, row |-> k, sp |-> d[year][k]]]
      isin(e) == e.sp \in chipsets
  IN SelectSeq(rows, isin)

\* mutant: the history of earlier years is never consulted
added_chipsets_no_history(current, all_previous_chipsets) == current

added_chipsets(current, all_previous_chipsets) == current \ all_previous_chipsets

RECURSIVE added_loop(_, _, _, _, _, _)
added_loop(d, hist, year_list, i, all_previous_chipsets, acc) ==
  IF i > Len(year_list) THEN acc
  ELSE LET year == year_list[i]
           new == added_chipsets(hist[year], all_previous_chipsets)
       IN added_loop(d, hist, year_list, i + 1,
                     all_previous_chipsets \cup hist[year],
                     acc \o records_isin(d, year, new))

RECURSIVE reversed(_)
reversed(s) == IF s = <<>> THEN <<>> ELSE Append(reversed(Tail(s)), Head(s))

\* mutant: the years are walked newest first
find_added_descending(d, hist, year_list) ==
  added_loop(d, hist, reversed(year_list), 1, {}, <<>>)

find_added(d, hist, year_list) == added_loop(d, hist, year_list, 1, {}, <<>>)

\* mutant: only the next year is looked at, not all later years
later_years_chipsets_next_only(hist, year_list, i) == hist[year_list[i + 1]]

later_years_chipsets(hist, year_list, i) ==
  UNION {hist[year_list[j]] : j \in (i + 1)..Len(year_list)}

removed_chipsets(hist, year_list, i) ==
  hist[year_list[i]] \ later_years_chipsets(hist, year_list, i)

\* for i in range(len(year_list) - 1): positions 1 .. n-1
RECURSIVE removed_loop(_, _, _, _, _)
removed_loop(d, hist, year_list, i, acc) ==
  IF i + 1 > Len(year_list) THEN acc
  ELSE removed_loop(d, hist, year_list, i + 1,
                    acc \o records_isin(d, year_list[i], removed_chipsets(hist, year_list, i)))

find_removed(d, hist, year_list) == removed_loop(d, hist, year_list, 1, <<>>)

\* mutant: the year two back is not required to hold the chipset
reappeared_chipsets_not_older(older, prev, curr) == curr \ prev

\* mutant: the previous year is not required to lack the chipset
reappeared_chipsets_not_gone(older, prev, curr) == older \cap curr

reappeared_chipsets(older, prev, curr) == (older \ prev) \cap curr

\* for year in range(2, len(year_list)): positions 3 .. n
RECURSIVE reappeared_loop(_, _, _, _, _)
reappeared_loop(d, hist, year_list, i, acc) ==
  IF i > Len(year_list) THEN acc
  ELSE LET re == reappeared_chipsets(hist[year_list[i - 2]], hist[year_list[i - 1]],
                                     hist[year_list[i]])
       IN reappeared_loop(d, hist, year_list, i + 1,
                          [set |-> acc.set \cup re,
                           list |-> acc.list \o records_isin(d, year_list[i], re)])

find_reappeared(d, hist, year_list) ==
  reappeared_loop(d, hist, year_list, 3, [set |-> {}, list |-> <<>>])

\* mutant: the filter on reappeared chipsets is left out
reconcile_keep_reappeared(removed_list, reappeared_chipsets_set, hist, year_list) ==
  LET in_first_year(entry) == entry.sp \in hist[year_list[1]]
  IN SelectSeq(removed_list, in_first_year)

\* the two list comprehensions that filter removed
reconcile(removed_list, reappeared_chipsets_set, hist, year_list) ==
  LET not_reappeared(entry) == entry.sp \notin reappeared_chipsets_set
      in_first_year(entry) == entry.sp \in hist[year_list[1]]
  IN SelectSeq(SelectSeq(removed_list, not_reappeared), in_first_year)

add_serial_number(df) ==
  [i \in 1..Len(df) |-> [SrNo |-> i, year |-> df[i].year, row |-> df[i].row, sp |-> df[i].sp]]

compare_chipsets(d) ==
  LET year_list == sorted(DOMAIN d)
      hist == chipset_history(d)
      re == find_reappeared(d, hist, year_list)
  IN [added |-> add_serial_number(find_added(d, hist, year_list)),
      removed |-> add_serial_number(
                    reconcile(find_removed(d, hist, year_list), re.set, hist, year_list)),
      reappeared |-> add_serial_number(re.list)]

(* ------------------- compare_chipsets called directly ------------------- *)

RECURSIVE InputDicts(_, _)
InputDicts(n, t) ==
  IF n = 0 THEN {<<>>}
  ELSE UNION {{Append(d, r) : d \in InputDicts(n - 1, t - k), r \in [1..k -> Vals]} :
              k \in 0..t}

NoFiles == [y \in {} |-> <<>>]
FreshSession == [has_manual_entries |-> FALSE, manual_entries |-> NoFiles]

InitCmp ==
  /\ \E n \in 0..MaxYears : data_dict \in InputDicts(n, MaxRecords)
  /\ uploaded_files = NoFiles
  /\ session_state = FreshSession
  /\ added = <<>>
  /\ removed = <<>>
  /\ reappeared = <<>>
  /\ status = "ready"

Compare ==
  /\ status = "ready"
  /\ LET out == compare_chipsets(data_dict)
     IN /\ added' = out.added
        /\ removed' = out.removed
        /\ reappeared' = out.reappeared
  /\ status' = "returned"
  /\ UNCHANGED <<uploaded_files, session_state, data_dict>>

TotalRecords(d) ==
  LET RECURSIVE Sum(_)
      Sum(S) == IF S = {} THEN 0
                ELSE LET y == CHOOSE x \in S : TRUE IN Len(d[y]) + Sum(S \ {y})
  IN Sum(DOMAIN d)

\* The caller calls again with the same periods after one of them gained a
\* record (what a manual entry does to data_dict between two runs of main).
CompareAfterAppend ==
  /\ status = "returned"
  /\ TotalRecords(data_dict) < MaxRecords
  /\ \E year \in DOMAIN data_dict, sp \in Vals :
       data_dict' = [data_dict EXCEPT ![year] = Append(@, sp)]
  /\ LET out == compare_chipsets(data_dict')
     IN /\ added' = out.added
        /\ removed' = out.removed
        /\ reappeared' = out.reappeared
  /\ UNCHANGED <<uploaded_files, session_state, status>>

\* The caller calls again with the same periods after one of them lost its
\* last record (what a replaced file does to data_dict between two runs).
CompareAfterDrop ==
  /\ status = "returned"
  /\ \E year \in DOMAIN data_dict :
       /\ data_dict[year] # <<>>
       /\ data_dict' = [data_dict EXCEPT ![year] = SubSeq(@, 1, Len(@) - 1)]
  /\ LET out == compare_chipsets(data_dict')
     IN /\ added' = out.added
        /\ removed' = out.removed
        /\ reappeared' = out.reappeared
  /\ UNCHANGED <<uploaded_files, session_state, status>>

NextCmp == Compare \/ CompareAfterAppend \/ CompareAfterDrop

SpecCmp == InitCmp /\ [][NextCmp]_vars

(* -------------------------------- main ---------------------------------- *)

\* "manual_entries" not in st.session_state: one empty table per uploaded year
init_manual_entries(ss, years) ==
  IF ss.has_manual_entries THEN ss
  ELSE [has_manual_entries |-> TRUE, manual_entries |-> [year \in years |-> <<>>]]

\* for year in years: data_dict[year] = pd.concat([data_dict[year], manual_entries[year]])
merge_manual_entries(files, manual_entries) ==
  [year \in DOMAIN files |-> files[year] \o manual_entries[year]]

TotalManual(ss) ==
  LET m == ss.manual_entries
      RECURSIVE Sum(_)
      Sum(S) == IF S = {} THEN 0
                ELSE LET y == CHOOSE x \in S : TRUE IN Len(m[y]) + Sum(S \ {y})
  IN Sum(DOMAIN m)

\* One run of the script from the merge step on, "Add Entry" not clicked:
\* manual_entries[year] raises KeyError for a year the store has no table for.
Display(files, ss) ==
  /\ uploaded_files' = files
  /\ session_state' = ss
  /\ IF DOMAIN files \subseteq DOMAIN ss.manual_entries
     THEN LET merged == merge_manual_entries(files, ss.manual_entries)
              out == compare_chipsets(merged)
          IN /\ data_dict' = merged
             /\ added' = out.added
             /\ removed' = out.removed
             /\ reappeared' = out.reappeared
             /\ status' = "ok"
     ELSE /\ data_dict' = files
          /\ added' = <<>>
          /\ removed' = <<>>
          /\ reappeared' = <<>>
          /\ status' = "KeyError"

\* One run of the script with "Add Entry" not clicked.
Rerun(files) ==
  IF DOMAIN files = {}
  THEN /\ uploaded_files' = files
       /\ data_dict' = files
       /\ added' = <<>>
       /\ removed' = <<>>
       /\ reappeared' = <<>>
       /\ status' = "no_files"
       /\ UNCHANGED session_state
  ELSE Display(files, init_manual_entries(session_state, DOMAIN files))

\* The user adds files to the uploader, several in one selection or one by
\* one; a file whose name carries an already uploaded year takes its place.
UploadFiles ==
  \E files \in UNION {[years -> SampleFiles] : years \in SUBSET SessionYears \ {{}}} :
    Rerun([y \in DOMAIN uploaded_files \cup DOMAIN files |->
             IF y \in DOMAIN files THEN files[y] ELSE uploaded_files[y]])

\* The user removes an uploaded file.
RemoveFile ==
  \E year \in DOMAIN uploaded_files :
    Rerun([y \in DOMAIN uploaded_files \ {year} |-> uploaded_files[y]])

\* The user clicks "Add Entry": the entry is appended to the selected year's
\* table and st.rerun() runs the script again without the click.
AddEntry ==
  \E selected_year \in DOMAIN uploaded_files, new_chipset \in TypedCodes :
    LET ss == init_manual_entries(session_state, DOMAIN uploaded_files)
    IN /\ TotalManual(ss) < MaxManual
       /\ IF selected_year \in DOMAIN ss.manual_entries
          THEN Display(uploaded_files,
                       [ss EXCEPT !.manual_entries[selected_year] =
                                     Append(@, new_chipset)])
          ELSE /\ status' = "KeyError"
               /\ data_dict' = uploaded_files
               /\ added' = <<>>
               /\ removed' = <<>>
               /\ reappeared' = <<>>
               /\ UNCHANGED <<uploaded_files, session_state>>

Init ==
  /\ uploaded_files = NoFiles
  /\ session_state = FreshSession
  /\ data_dict = NoFiles
  /\ added = <<>>
  /\ removed = <<>>
  /\ reappeared = <<>>
  /\ status = "no_files"

Next == UploadFiles \/ RemoveFile \/ AddEntry

Spec == Init /\ [][Next]_vars

(* ------------------------------ properties ------------------------------ *)

Returned == status = "returned"
Periods == DOMAIN data_dict
\* S_i: the identifier set of a period, as the comparison builds it
S(y) == chipset_history(data_dict)[y]
\* the position i of period p_i in ascending order, and its inverse
Pos(y) == Cardinality({j \in Periods : j <= y})
PeriodAt(i) == CHOOSE y \in Periods : Pos(y) = i
NumPeriods == Cardinality(Periods)
AllRecs == UNION {{<<y, k>> : k \in 1..Len(data_dict[y])} : y \in Periods}
Id(r) == data_dict[r[1]][r[2]]
Recs(out) == {<<out[i].year, out[i].row>> : i \in 1..Len(out)}
Ids(out) == {out[i].sp : i \in 1..Len(out)}
NoDup(out) == Cardinality(Recs(out)) = Len(out)
\* present at a non-last period and absent from every later one
RemovedCandidate(id) ==
  \E y \in Periods : /\ Pos(y) < NumPeriods
                     /\ id \in S(y)
                     /\ \A j \in Periods : j > y => id \notin S(j)
\* present two periods back, absent from the previous period, present at y
WindowAt(id, y) ==
  /\ Pos(y) >= 3
  /\ id \in S(PeriodAt(Pos(y) - 2))
  /\ id \notin S(PeriodAt(Pos(y) - 1))
  /\ id \in S(y)

\* C1 as stated: no record of any period is placed in two of Added, Removed
\* and Reappeared at once.
C1_ExactlyOneOutput ==
  Returned =>
    \A r \in AllRecs :
      /\ ~(r \in Recs(added) /\ r \in Recs(removed))
      /\ ~(r \in Recs(added) /\ r \in Recs(reappeared))
      /\ ~(r \in Recs(removed) /\ r \in Recs(reappeared))

\* C1 amended: no record placed in Reappeared is also placed in Added or in
\* Removed (a record may be in both Added and Removed).
C1_ReappearedExclusive ==
  Returned =>
    \A r \in AllRecs :
      r \in Recs(reappeared) => r \notin Recs(added) /\ r \notin Recs(removed)

C1_Witness ==
  /\ Returned
  /\ reappeared # <<>>
  /\ Recs(added) \cap Recs(removed) # {}

\* C2: Added is exactly the records of p_i whose identifier is in S_i and in
\* no earlier S_j, each once; every identifier is Added at exactly one period,
\* its first; every identifier of p_1 is Added.
C2_AddedIsFirstOccurrence ==
  Returned =>
    /\ Recs(added) = {r \in AllRecs : /\ Id(r) \in S(r[1])
                                      /\ \A j \in Periods : j < r[1] => Id(r) \notin S(j)}
    /\ NoDup(added)
    /\ \A id \in UNION {S(y) : y \in Periods} :
         {added[i].year : i \in {k \in 1..Len(added) : added[k].sp = id}}
           = {CHOOSE y \in Periods : id \in S(y) /\ \A j \in Periods : id \in S(j) => y <= j}
    /\ Periods # {} => S(PeriodAt(1)) \subseteq Ids(added)

C2_Witness ==
  /\ Returned
  /\ \E i, j \in 1..Len(added) :
       i # j /\ added[i].year = added[j].year /\ added[i].sp = added[j].sp
  /\ \E i \in 1..Len(added) : Pos(added[i].year) > 1

\* C3: Removed is exactly the records of a non-last period whose identifier is
\* in S_i, in no later S_j, in S_1 and not in the Reappeared identifiers; it is
\* empty for a single period.
C3_RemovedExactly ==
  Returned =>
    /\ Recs(removed) = {r \in AllRecs : /\ Pos(r[1]) < NumPeriods
                                        /\ Id(r) \in S(r[1])
                                        /\ \A j \in Periods : j > r[1] => Id(r) \notin S(j)
                                        /\ Id(r) \in S(PeriodAt(1))
                                        /\ Id(r) \notin Ids(reappeared)}
    /\ NoDup(removed)
    /\ NumPeriods <= 1 => removed = <<>>

C3_Witness ==
  /\ Returned
  /\ removed # <<>>
  /\ \E y \in Periods : \E id \in S(y) :
       RemovedCandidate(id) /\ id \notin S(PeriodAt(1))

\* C4: no identifier is in both Removed and Reappeared; a Removed candidate
\* that qualifies as Reappeared in some window is kept out of Removed and in
\* Reappeared.
C4_RemovedReappearedDisjoint ==
  Returned =>
    /\ Ids(removed) \cap Ids(reappeared) = {}
    /\ \A id \in Vals :
         (RemovedCandidate(id) /\ \E y \in Periods : WindowAt(id, y))
           => id \notin Ids(removed) /\ id \in Ids(reappeared)

C4_Witness ==
  /\ Returned
  /\ \E id \in Vals : /\ RemovedCandidate(id)
                      /\ \E y \in Periods : WindowAt(id, y)
                      /\ id \in S(PeriodAt(1))

\* C5: Reappeared is exactly the records of p_i (i >= 3) whose identifier is
\* in S_(i-2), not in S_(i-1) and in S_i, each window on its own; it is empty
\* for fewer than 3 periods.
C5_ReappearedExactly ==
  Returned =>
    /\ Recs(reappeared) = {r \in AllRecs : WindowAt(Id(r), r[1])}
    /\ NoDup(reappeared)
    /\ NumPeriods < 3 => reappeared = <<>>

C5_Witness ==
  /\ Returned
  /\ \E i, j \in 1..Len(reappeared) :
       reappeared[i].sp = reappeared[j].sp /\ reappeared[i].year # reappeared[j].year

\* C6: compare_chipsets never returns a result for an empty mapping.
C6_EmptyInputRejected == ~(Returned /\ Periods = {})

\* C9: an identifier present at p_i, absent at a later p_j and present at a
\* still later p_k has a record in Reappeared.
C9_AnyGapReappears ==
  Returned =>
    \A id \in Vals : \A i, j, k \in Periods :
      (i < j /\ j < k /\ id \in S(i) /\ id \notin S(j) /\ id \in S(k))
        => id \in Ids(reappeared)

\* C7: a null or empty identifier is in no period's identifier set and in none
\* of the three outputs, manual entries included.
C7_NoNullOrEmptyIdentifier ==
  status = "ok" =>
    /\ \A y \in Periods : S(y) \cap {NaN, Empty} = {}
    /\ (Ids(added) \cup Ids(removed) \cup Ids(reappeared)) \cap {NaN, Empty} = {}

\* the records of period p in an output
PeriodPart(out, p) == {<<out[i].row, out[i].sp>> : i \in {k \in 1..Len(out) : out[k].year = p}}
\* two consecutive comparisons over the same periods that agree up to p
AgreeUpTo(p) ==
  /\ status = "returned"
  /\ status' = "returned"
  /\ DOMAIN data_dict' = DOMAIN data_dict
  /\ \A y \in DOMAIN data_dict : y <= p => data_dict'[y] = data_dict[y]

\* C8 as stated: Added, Removed and Reappeared of period p are the same in two
\* comparisons whose inputs differ only after p.
C8_PeriodDependsOnlyOnPast ==
  [][\A p \in DOMAIN data_dict :
       AgreeUpTo(p) => /\ PeriodPart(added', p) = PeriodPart(added, p)
                       /\ PeriodPart(removed', p) = PeriodPart(removed, p)
                       /\ PeriodPart(reappeared', p) = PeriodPart(reappeared, p)]_vars

\* C8 amended: Added and Reappeared of period p are the same in two
\* comparisons whose inputs differ only after p.
C8_AddedReappearedDependOnPast ==
  [][\A p \in DOMAIN data_dict :
       AgreeUpTo(p) => /\ PeriodPart(added', p) = PeriodPart(added, p)
                       /\ PeriodPart(reappeared', p) = PeriodPart(reappeared, p)]_vars

C8_Witness ==
  /\ Returned
  /\ removed # <<>>
  /\ \E i \in 1..Len(added) : Pos(added[i].year) < NumPeriods
  /\ \E i \in 1..Len(reappeared) : Pos(reappeared[i].year) < NumPeriods

\* C10: whenever files are uploaded the manual_entries store has a table for
\* every uploaded year, so the run reaches the comparison, and the comparison
\* reads every year's file followed by that year's manual entries.
C10_StoreCoversUploadedYears ==
  /\ DOMAIN uploaded_files # {} =>
       /\ DOMAIN uploaded_files \subseteq DOMAIN session_state.manual_entries
       /\ status = "ok"
  /\ status = "ok" =>
       \A y \in DOMAIN uploaded_files :
         data_dict[y] = uploaded_files[y] \o session_state.manual_entries[y]

====
